---- MODULE Spec2Model ----
(***************************************************************************)
(* The gadget routes of the IMF Gadget API (src/routes/gadgets.js), the    *)
(* Gadget model with its beforeUpdate hook, and the auth middleware.       *)
(*                                                                         *)
(* The route handlers are async functions: a handler runs synchronously   *)
(* up to an await, the database executes the awaited query at some later   *)
(* moment, and the handler resumes at a yet later one.  Each of these is   *)
(* one step, and the steps of the requests in flight interleave.           *)
(***************************************************************************)
EXTENDS Integers, Sequences, FiniteSets, TLC

VARIABLES
    gadgets,                   \* the Gadgets table: uuid -> row
    pendingSelfDestructCodes,  \* gadgets.js:229, :id as sent -> pending code
    clock,                     \* what new Date() returns
    response,                  \* the last response sent
    reqs,                      \* the requests in flight, by slot
    budget,                    \* number of requests the model still follows
    accepted                   \* history: per :id, the successful confirms of
                               \* the code the latest generate-code call stored

vars == <<gadgets, pendingSelfDestructCodes, clock, response, reqs, budget, accepted>>

----------------------------------------------------------------------------
(* Bounds of the model *)

MaxGadgets == 2
MaxClock == 1
NumCodes == 2
NumNouns == 1
NumSpellings == 2
MaxInflight == 2
MaxRequests == 2
MaxSelfDestructs == 3

(* Program constants *)

CodeBase == 10000

----------------------------------------------------------------------------
(* JavaScript values *)

\* JSON null where a string is expected
JsNull == "null"
\* A null DATE column and a set one
NoDate == <<>>
Date(t) == <<t>>

EmptyObject == [x \in {} |-> x]

\* (n).toString(): a string value, never === to the number n
JsString(n) == [type |-> "string", val |-> n]
JsNumber(n) == [type |-> "number", val |-> n]
NoValue == [type |-> "undefined", val |-> 0]
\* A function or object inherited from Object.prototype: truthy, and === to
\* nothing a JSON body holds
Inherited == [type |-> "function", val |-> 0]

\* a === b
StrictEquals(a, b) == a.type = b.type /\ a.val = b.val

----------------------------------------------------------------------------
(* The Gadget model (src/unnamed/part_000) *)

Statuses == {"Available", "Deployed", "Destroyed", "Decommissioned"}

\* The uuids of the rows
GadgetIds == 1..MaxGadgets

\* The ways a client can write one uuid that PostgreSQL reads as the same
\* value (as printed, in upper case, in braces, without hyphens, ...)
Spellings == 1..NumSpellings
\* req.params.id is the text of the path segment: <<u, f>> is the uuid u
\* written in the spelling f; uuid 0 is one no row has
UuidKeys == {<<u, f>> : u \in GadgetIds, f \in Spellings} \cup {<<0, 1>>}
\* A :id that is no uuid but the name of a property every object inherits
\* from Object.prototype ("constructor", "toString", ...)
PrototypeKey == <<-1, 1>>
RequestIds == UuidKeys \cup {PrototypeKey}
\* The :id a response prints a row's uuid as
Canonical(u) == <<u, 1>>
\* The :ids a PATCH or DELETE request carries: its spelling reaches nothing
\* but the query
PlainIds == {id \in RequestIds : id[2] = 1}
\* No :id
NoId == <<>>

\* PostgreSQL reading the text as a uuid value
Uuid(id) == id[1]

Attributes == {"name", "status", "decommissionedAt"}

\* The hook without its else branch
BeforeUpdateNoClear(gadget, now) ==
    IF gadget.status = "Decommissioned" /\ gadget.decommissionedAt = NoDate
    THEN [gadget EXCEPT !.decommissionedAt = Date(now)]
    ELSE gadget

\* hooks.beforeUpdate
BeforeUpdate(gadget, now) ==
    IF gadget.status = "Decommissioned" /\ gadget.decommissionedAt = NoDate
    THEN [gadget EXCEPT !.decommissionedAt = Date(now)]
    ELSE IF gadget.status # "Decommissioned"
         THEN [gadget EXCEPT !.decommissionedAt = NoDate]
         ELSE gadget

\* allowNull: false on name and status, checked on the fields being saved
ValidationFails(inst, fields) ==
    \/ "name" \in fields /\ inst.name = JsNull
    \/ "status" \in fields /\ inst.status = JsNull

\* Model.findByPk rejects: the UUID column refuses an id that is no UUID, and
\* the handler's catch answers 400
FindByPkThrows(id) == id = PrototypeKey

\* Model.findByPk: <<>> stands for null, <<row>> for an instance
FindByPk(db, id) == IF Uuid(id) \in DOMAIN db THEN <<db[Uuid(id)]>> ELSE <<>>

\* Model.findOne({ where: { name } })
FindOneByName(db, name) == \E k \in DOMAIN db : db[k].name = name

\* instance.set(values): the loaded copy with the given values put on it
SetAttributes(copy, values) ==
    [f \in Attributes |-> IF f \in DOMAIN values THEN values[f] ELSE copy[f]]

(* instance.update(values): set the values on the loaded copy, validate,    *)
(* run beforeUpdate, and save the fields named in values, the other fields *)
(* set changed, and the fields the hook changed. Nothing is written when   *)
(* no attribute differs from the loaded copy.                              *)
InstanceUpdate(copy, values, now) ==
    LET keys == DOMAIN values
        set == SetAttributes(copy, values)
        hooked == BeforeUpdate(set, now)
        changedBySet == {f \in Attributes : set[f] # copy[f]}
        sideEffects == changedBySet \ keys
        fields == keys \cup sideEffects
        hookChanged == {f \in Attributes : hooked[f] # set[f]}
    IN  IF ValidationFails(set, fields)
        THEN [error |-> TRUE, inst |-> copy, fields |-> {}, write |-> FALSE]
        ELSE [error |-> FALSE,
              inst |-> hooked,
              fields |-> fields \cup hookChanged,
              write |-> (changedBySet \cup hookChanged) # {}]

\* The table without the unique index on name
DbRejectsNoUnique(db, id, inst, fields) ==
    "status" \in fields /\ inst.status \notin Statuses

\* The table rejects a status outside the ENUM and a name another row holds
DbRejects(db, id, inst, fields) ==
    \/ "status" \in fields /\ inst.status \notin Statuses
    \/ "name" \in fields /\ \E k \in DOMAIN db \ {id} : db[k].name = inst.name

\* The UPDATE without its WHERE clause
DbUpdateAllRows(db, id, inst, fields) ==
    [k \in DOMAIN db |-> [f \in Attributes |-> IF f \in fields THEN inst[f] ELSE db[k][f]]]

\* The UPDATE setting every column from the instance
DbUpdateWholeRow(db, id, inst, fields) ==
    [db EXCEPT ![id] = inst]

\* UPDATE "Gadgets" SET <fields> WHERE id = <id>
DbUpdate(db, id, inst, fields) ==
    [db EXCEPT ![id] = [f \in Attributes |-> IF f \in fields THEN inst[f] ELSE @[f]]]

\* The instance Gadget.create({ name, status: 'Available' }) inserts
NewGadget(name) == [name |-> name, status |-> "Available", decommissionedAt |-> NoDate]

\* INSERT INTO "Gadgets"
DbInsert(db, id, name) == (id :> NewGadget(name)) @@ db

\* DataTypes.UUIDV4: an id no row holds
FreshIds(db) == GadgetIds \ DOMAIN db

----------------------------------------------------------------------------
(* Codenames (gadgets.js:362-381) *)

NounList == <<"Nightingale", "Kraken", "Phantom", "Vortex", "Specter",
              "Maverick", "Intruder", "Cipher", "Operative", "Shadow",
              "Saboteur", "Viper", "Agent", "Enigma">>

\* The indices Math.floor(Math.random() * nouns.length) is drawn from
NounIndices == 1..NumNouns

\* generateCodename with the random index i
GenerateCodename(i) == "The " \o NounList[i]

\* A name no codename equals, for PATCH bodies
OtherName == "Gizmo"

Names == {GenerateCodename(i) : i \in NounIndices} \cup {OtherName}

----------------------------------------------------------------------------
(* Confirmation codes (gadgets.js:274) *)

\* The values (Math.floor(Math.random() * 90000) + 10000) is drawn from
CodeNumbers == CodeBase..(CodeBase + NumCodes - 1)

\* What a client may send as confirmationCode
SuppliedCodes ==
    {JsString(n) : n \in CodeNumbers} \cup {JsNumber(n) : n \in CodeNumbers} \cup {NoValue}

----------------------------------------------------------------------------
(* The auth middleware (src/unnamed/part_001) *)

\* An Authorization header is the sequence of its words, authHeader.split(' ');
\* <<>> is a request without the header
Headers ==
    { <<>>, <<"">>, <<"jwt">>, <<"Bearer", "jwt">>, <<"expired">>,
      <<"Bearer", "expired">>, <<"bearer", "jwt">>, <<"Bearer", "jwt", "x">> }

\* jwt.verify(token, secret) returns for the tokens signed with the secret
\* and not expired; such a token is one word
JwtVerify(token) == token = <<"jwt">>

\* The middleware verifying the header as it came
ExtractTokenWhole(parts) == parts

\* parts.length === 2 && parts[0] === 'Bearer' ? parts[1] : authHeader
ExtractToken(parts) ==
    IF Len(parts) = 2 /\ parts[1] = "Bearer" THEN <<parts[2]>> ELSE parts

\* TRUE when the middleware calls next()
Authorized(hdr) ==
    /\ ~(hdr = <<>> \/ hdr = <<"">>)
    /\ JwtVerify(ExtractToken(hdr))

----------------------------------------------------------------------------------------------------------------------------------------
(* Responses *)

\* res.status(http).json(...); code is the confirmationCode in the body
Respond(op, id, http) == [op |-> op, id |-> id, http |-> http, code |-> 0]
RespondCode(op, id, http, code) == [op |-> op, id |-> id, http |-> http, code |-> code]

----------------------------------------------------------------------------
(* Requests in flight *)

NoRow == [name |-> "", status |-> "", decommissionedAt |-> NoDate]

(* A handler suspended at an await.  pc names the await and whether the    *)
(* database has executed the query; id is req.params.id; row is what       *)
(* findByPk resolved to; inst and fields are the instance being saved      *)
(* and the columns of its UPDATE; ok is the outcome of the last query.     *)
(* alone records that no other request arrived since this one did.         *)
Request(op, pc, id) ==
    [op |-> op, pc |-> pc, id |-> id, row |-> <<>>,
     inst |-> NoRow, fields |-> {}, ok |-> TRUE, latest |-> FALSE, alone |-> FALSE]

Idle == Request("idle", "", NoId)

Slots == 1..MaxInflight

InFlight(s) == reqs[s].op # "idle"
Quiet == \A s \in Slots : ~InFlight(s)

\* The slot a new request takes: the first free one
FirstFree(s) == ~InFlight(s) /\ \A t \in Slots : t < s => InFlight(t)

\* A request arrives and answers at once
Interrupt == [t \in Slots |-> [reqs[t] EXCEPT !.alone = FALSE]]

\* A request arrives and its handler suspends at its first await
Arrive(s, r) ==
    reqs' = [t \in Slots |->
                IF t = s THEN [r EXCEPT !.alone = Quiet]
                ELSE [reqs[t] EXCEPT !.alone = FALSE]]

\* The handler in slot s goes on to its next await
Suspend(s, r) == reqs' = [reqs EXCEPT ![s] = r]

\* The handler in slot s has answered
Finish(s) == reqs' = [reqs EXCEPT ![s] = Idle]

At(s, op, pc) == reqs[s].op = op /\ reqs[s].pc = pc

\* The Gadgets table outlives the process (src/migrations creates it once):
\* at start it holds what earlier runs left, here the gadgets they created,
\* the first of them renamed
NoGadgets == [k \in {} |-> NoRow]
InitialTables ==
    { NoGadgets,
      (1 :> NewGadget(OtherName)),
      (1 :> NewGadget(OtherName)) @@ (2 :> NewGadget(GenerateCodename(1))) }

\* The process has budget: no code is pending, no request has arrived
Start(n) ==
    /\ gadgets \in InitialTables
    /\ pendingSelfDestructCodes = [k \in {} |-> NoValue]
    /\ clock = 0
    /\ response = Respond("none", NoId, 0)
    /\ reqs = [s \in Slots |-> Idle]
    /\ budget = n
    /\ accepted = [id \in RequestIds |-> 0]

Init == Start(MaxRequests)

\* A request arrives
Admit == budget > 0 /\ budget' = budget - 1

\* Time passes
Tick ==
    /\ clock < MaxClock
    /\ clock' = clock + 1
    /\ UNCHANGED <<gadgets, pendingSelfDestructCodes, response, reqs, budget, accepted>>

\* authMiddleware answers 401 and the route is not reached
AuthReject(hdr) ==
    /\ ~Authorized(hdr)
    /\ Admit
    /\ response' = Respond("auth", NoId, 401)
    /\ reqs' = Interrupt
    /\ UNCHANGED <<gadgets, pendingSelfDestructCodes, clock, accepted>>

----------------------------------------------------------------------------
(* The database executing an awaited query *)

\* Gadget.findByPk(req.params.id): the SELECT runs
ExecFindByPk(s) ==
    /\ InFlight(s) /\ reqs[s].pc = "findByPk"
    /\ Suspend(s, [reqs[s] EXCEPT !.pc = "loaded",
                                  !.ok = ~FindByPkThrows(reqs[s].id),
                                  !.row = IF FindByPkThrows(reqs[s].id) THEN <<>>
                                          ELSE FindByPk(gadgets, reqs[s].id)])
    /\ UNCHANGED <<gadgets, pendingSelfDestructCodes, clock, response, budget, accepted>>

\* gadget.update(...): the UPDATE runs, or the table rejects it
ExecSave(s) ==
    /\ InFlight(s) /\ reqs[s].pc = "save"
    /\ LET r == reqs[s]
           u == Uuid(r.id)
       IN  IF DbRejects(gadgets, u, r.inst, r.fields)
           THEN /\ Suspend(s, [r EXCEPT !.pc = "saved", !.ok = FALSE])
                /\ UNCHANGED gadgets
           ELSE /\ Suspend(s, [r EXCEPT !.pc = "saved", !.ok = TRUE])
                /\ gadgets' = DbUpdate(gadgets, u, r.inst, r.fields)
    /\ UNCHANGED <<pendingSelfDestructCodes, clock, response, budget, accepted>>

----------------------------------------------------------------------------
(* GET /gadgets (gadgets.js:54-74) *)

\* req.query.status: absent, a status of the ENUM, one outside it
QueryStatuses == {"", "Deployed", "Bogus"}

\* if (status) where.status = status
WhereOf(status) == IF status = "" THEN EmptyObject ELSE [status |-> status]

\* Gadget.findAll({ where }) rejects: the ENUM column refuses the value
FindAllRejects(where) == "status" \in DOMAIN where /\ where.status \notin Statuses

\* The handler builds the where clause and awaits findAll
List(s, hdr) ==
    /\ Authorized(hdr)
    /\ Admit
    /\ FirstFree(s)
    /\ Arrive(s, Request("list", "findAll", NoId))
    /\ UNCHANGED <<gadgets, pendingSelfDestructCodes, clock, response, accepted>>

\* The SELECT runs, with the status the request's query string carries
ExecFindAll(s, status) ==
    /\ At(s, "list", "findAll")
    /\ Suspend(s, [reqs[s] EXCEPT !.pc = "listed", !.ok = ~FindAllRejects(WhereOf(status))])
    /\ UNCHANGED <<gadgets, pendingSelfDestructCodes, clock, response, budget, accepted>>

\* res.json(gadgetsWithProbability), or the catch answers 500
ListAnswer(s) ==
    /\ At(s, "list", "listed")
    /\ response' = Respond("list", NoId, IF reqs[s].ok THEN 200 ELSE 500)
    /\ Finish(s)
    /\ UNCHANGED <<gadgets, pendingSelfDestructCodes, clock, budget, accepted>>

----------------------------------------------------------------------------
(* POST /gadgets (gadgets.js:103-112, 373-381) *)

\* The creates that have not inserted yet
CreatesInFlight ==
    Cardinality({t \in Slots : reqs[t].op = "create" /\ reqs[t].pc # "inserted"})

\* The handler draws a codename and awaits findOne; the model follows the
\* creates of MaxGadgets rows
Create(s, hdr, i) ==
    /\ Authorized(hdr)
    /\ Cardinality(DOMAIN gadgets) + CreatesInFlight < MaxGadgets
    /\ Admit
    /\ FirstFree(s)
    /\ Arrive(s, [Request("create", "findOne", NoId)
                    EXCEPT !.inst = NewGadget(GenerateCodename(i))])
    /\ UNCHANGED <<gadgets, pendingSelfDestructCodes, clock, response, accepted>>

\* Gadget.findOne({ where: { name: codename } }): the SELECT runs; ok is
\* TRUE when no row holds the codename
ExecFindOne(s) ==
    /\ At(s, "create", "findOne")
    /\ Suspend(s, [reqs[s] EXCEPT !.pc = "found",
                                  !.ok = ~FindOneByName(gadgets, reqs[s].inst.name)])
    /\ UNCHANGED <<gadgets, pendingSelfDestructCodes, clock, response, budget, accepted>>

\* while (exists): the codename is held, draw another and await findOne again
CreateRetry(s, i) ==
    /\ At(s, "create", "found")
    /\ ~reqs[s].ok
    /\ Suspend(s, [reqs[s] EXCEPT !.pc = "findOne", !.ok = TRUE,
                                  !.inst = NewGadget(GenerateCodename(i))])
    /\ UNCHANGED <<gadgets, pendingSelfDestructCodes, clock, response, budget, accepted>>

\* The loop ends and the handler awaits Gadget.create
CreateIssue(s) ==
    /\ At(s, "create", "found")
    /\ reqs[s].ok
    /\ Suspend(s, [reqs[s] EXCEPT !.pc = "insert"])
    /\ UNCHANGED <<gadgets, pendingSelfDestructCodes, clock, response, budget, accepted>>

\* The INSERT runs, or the unique index on name rejects it
ExecInsert(s) ==
    /\ At(s, "create", "insert")
    /\ IF FindOneByName(gadgets, reqs[s].inst.name)
       THEN /\ Suspend(s, [reqs[s] EXCEPT !.pc = "inserted", !.ok = FALSE])
            /\ UNCHANGED gadgets
       ELSE LET u == CHOOSE v \in FreshIds(gadgets) : \A w \in FreshIds(gadgets) : v <= w
            IN  /\ Suspend(s, [reqs[s] EXCEPT !.pc = "inserted", !.ok = TRUE,
                                              !.id = Canonical(u)])
                /\ gadgets' = DbInsert(gadgets, u, reqs[s].inst.name)
    /\ UNCHANGED <<pendingSelfDestructCodes, clock, response, budget, accepted>>

\* res.status(201).json(gadget), or the catch answers 400
CreateAnswer(s) ==
    /\ At(s, "create", "inserted")
    /\ response' = IF reqs[s].ok THEN Respond("create", reqs[s].id, 201)
                   ELSE Respond("create", NoId, 400)
    /\ Finish(s)
    /\ UNCHANGED <<gadgets, pendingSelfDestructCodes, clock, budget, accepted>>

----------------------------------------------------------------------------
(* PATCH /gadgets/:id (gadgets.js:162-175) *)

\* The handler awaits findByPk
Update(s, hdr, id) ==
    /\ Authorized(hdr)
    /\ Admit
    /\ FirstFree(s)
    /\ Arrive(s, Request("update", "findByPk", id))
    /\ UNCHANGED <<gadgets, pendingSelfDestructCodes, clock, response, accepted>>

(* The handler resumes with the outcome of findByPk.  The catch answers    *)
(* 400, no row answers 404; gadget.update(req.body) validates and runs the *)
(* hook, and either has nothing to write and the handler answers 200, or   *)
(* awaits the UPDATE.  body is the request's body, which nothing read      *)
(* before this step.                                                       *)
UpdateResume(s, body) ==
    /\ At(s, "update", "loaded")
    /\ LET r == reqs[s] IN
       IF ~r.ok
       THEN /\ response' = Respond("update", r.id, 400)
            /\ Finish(s)
       ELSE IF r.row = <<>>
       THEN /\ response' = Respond("update", r.id, 404)
            /\ Finish(s)
       ELSE LET u == InstanceUpdate(r.row[1], body, clock) IN
            IF u.error
            THEN /\ response' = Respond("update", r.id, 400)
                 /\ Finish(s)
            ELSE IF ~u.write
            THEN /\ response' = Respond("update", r.id, 200)
                 /\ Finish(s)
            ELSE /\ Suspend(s, [r EXCEPT !.pc = "save", !.inst = u.inst,
                                         !.fields = u.fields, !.row = <<>>])
                 /\ UNCHANGED response
    /\ UNCHANGED <<gadgets, pendingSelfDestructCodes, clock, budget, accepted>>

\* res.json(gadget), or the catch answers 400
UpdateAnswer(s) ==
    /\ At(s, "update", "saved")
    /\ response' = Respond("update", reqs[s].id, IF reqs[s].ok THEN 200 ELSE 400)
    /\ Finish(s)
    /\ UNCHANGED <<gadgets, pendingSelfDestructCodes, clock, budget, accepted>>

----------------------------------------------------------------------------
(* DELETE /gadgets/:id (gadgets.js:209-225) *)

\* gadget.update({ status: 'Decommissioned' })
DecommissionValuesStatusOnly(now) == [status |-> "Decommissioned"]

\* gadget.update({ status: 'Destroyed', decommissionedAt: new Date() })
DecommissionValuesDestroyed(now) == [status |-> "Destroyed", decommissionedAt |-> Date(now)]

\* { status: 'Decommissioned', decommissionedAt: new Date() }
DecommissionValues(now) == [status |-> "Decommissioned", decommissionedAt |-> Date(now)]

\* The handler awaits findByPk
Decommission(s, hdr, id) ==
    /\ Authorized(hdr)
    /\ Admit
    /\ FirstFree(s)
    /\ Arrive(s, Request("decommission", "findByPk", id))
    /\ UNCHANGED <<gadgets, pendingSelfDestructCodes, clock, response, accepted>>

\* The handler resumes with the outcome of findByPk and calls gadget.update
DecommissionResume(s) ==
    /\ At(s, "decommission", "loaded")
    /\ LET r == reqs[s] IN
       IF ~r.ok
       THEN /\ response' = Respond("decommission", r.id, 400)
            /\ Finish(s)
       ELSE IF r.row = <<>>
       THEN /\ response' = Respond("decommission", r.id, 404)
            /\ Finish(s)
       ELSE LET u == InstanceUpdate(r.row[1], DecommissionValues(clock), clock) IN
            IF u.error
            THEN /\ response' = Respond("decommission", r.id, 400)
                 /\ Finish(s)
            ELSE IF ~u.write
            THEN /\ response' = Respond("decommission", r.id, 200)
                 /\ Finish(s)
            ELSE /\ Suspend(s, [r EXCEPT !.pc = "save", !.inst = u.inst,
                                         !.fields = u.fields, !.row = <<>>])
                 /\ UNCHANGED response
    /\ UNCHANGED <<gadgets, pendingSelfDestructCodes, clock, budget, accepted>>

\* res.json({ message: 'Gadget decommissioned' }), or the catch answers 400
DecommissionAnswer(s) ==
    /\ At(s, "decommission", "saved")
    /\ response' = Respond("decommission", reqs[s].id, IF reqs[s].ok THEN 200 ELSE 400)
    /\ Finish(s)
    /\ UNCHANGED <<gadgets, pendingSelfDestructCodes, clock, budget, accepted>>

----------------------------------------------------------------------------
(* The pending codes (gadgets.js:229) *)

\* pendingSelfDestructCodes[id] = confirmationCode
StoreCode(pending, id, code) == (id :> code) @@ pending

\* The handler without its delete
DeleteCodeSkipped(pending, id) == pending

\* delete pendingSelfDestructCodes[id]
DeleteCode(pending, id) == [k \in DOMAIN pending \ {id} |-> pending[k]]

\* pendingSelfDestructCodes[id] on a plain object: an own key, else what the
\* object inherits under that name, else undefined
GetProperty(pending, id) ==
    IF id \in DOMAIN pending THEN pending[id]
    ELSE IF id = PrototypeKey THEN Inherited
    ELSE NoValue

\* The first two checks of POST /gadgets/:id/self-destruct: 0 when both pass
CodeCheck(pending, id, confirmationCode) ==
    LET storedCode == GetProperty(pending, id)
    IN  IF storedCode = NoValue THEN 400
        ELSE IF ~StrictEquals(confirmationCode, storedCode) THEN 403
        ELSE 0

----------------------------------------------------------------------------
(* POST /gadgets/:id/self-destruct/generate-code (gadgets.js:266-284) *)

\* The handler awaits findByPk
GenerateSelfDestructCode(s, hdr, id) ==
    /\ Authorized(hdr)
    /\ Admit
    /\ FirstFree(s)
    /\ Arrive(s, Request("generate", "findByPk", id))
    /\ UNCHANGED <<gadgets, pendingSelfDestructCodes, clock, response, accepted>>

\* The handler resumes with the outcome of findByPk; with a row it draws the
\* number n, stores the code under the :id as sent and answers
GenerateResume(s, n) ==
    /\ At(s, "generate", "loaded")
    /\ LET r == reqs[s] IN
       IF ~r.ok
       THEN /\ response' = Respond("generate", r.id, 400)
            /\ Finish(s)
            /\ UNCHANGED <<pendingSelfDestructCodes, accepted>>
       ELSE IF r.row = <<>>
       THEN /\ response' = Respond("generate", r.id, 404)
            /\ Finish(s)
            /\ UNCHANGED <<pendingSelfDestructCodes, accepted>>
       ELSE /\ pendingSelfDestructCodes' =
                  StoreCode(pendingSelfDestructCodes, r.id, JsString(n))
            /\ response' = RespondCode("generate", r.id, 200, JsString(n))
            /\ accepted' = [accepted EXCEPT ![r.id] = 0]
            /\ reqs' = [t \in Slots |->
                          IF t = s THEN Idle
                          ELSE IF reqs[t].op = "confirm" /\ reqs[t].id = r.id
                               THEN [reqs[t] EXCEPT !.latest = FALSE]
                               ELSE reqs[t]]
    /\ UNCHANGED <<gadgets, clock, budget>>

----------------------------------------------------------------------------
(* POST /gadgets/:id/self-destruct (gadgets.js:330-359) *)

\* gadget.update({ status: 'Destroyed' })
SelfDestructValues == [status |-> "Destroyed"]

(* The two checks of the code run before any await: a failed check answers *)
(* 400 or 403 at once, however many handlers are suspended, and takes no    *)
(* slot.  When both pass the handler awaits findByPk in slot s.             *)
ConfirmSelfDestruct(s, hdr, id, confirmationCode) ==
    /\ Authorized(hdr)
    /\ Admit
    /\ LET check == CodeCheck(pendingSelfDestructCodes, id, confirmationCode)
       IN  IF check # 0
           THEN /\ response' = Respond("confirm", id, check)
                /\ reqs' = Interrupt
           ELSE /\ FirstFree(s)
                /\ Arrive(s, [Request("confirm", "findByPk", id)
                                EXCEPT !.latest = TRUE])
                /\ UNCHANGED response
    /\ UNCHANGED <<gadgets, pendingSelfDestructCodes, clock, accepted>>

\* delete pendingSelfDestructCodes[id]; res.json(...)
ConfirmDone(s) ==
    /\ pendingSelfDestructCodes' = DeleteCode(pendingSelfDestructCodes, reqs[s].id)
    /\ response' = Respond("confirm", reqs[s].id, 200)
    /\ accepted' = [accepted EXCEPT ![reqs[s].id] =
                      IF reqs[s].latest /\ @ < 2 THEN @ + 1 ELSE @]
    /\ Finish(s)

\* The handler resumes with the outcome of findByPk and calls gadget.update
ConfirmResume(s) ==
    /\ At(s, "confirm", "loaded")
    /\ LET r == reqs[s] IN
       IF ~r.ok
       THEN /\ response' = Respond("confirm", r.id, 400)
            /\ Finish(s)
            /\ UNCHANGED <<pendingSelfDestructCodes, accepted>>
       ELSE IF r.row = <<>>
       THEN /\ response' = Respond("confirm", r.id, 404)
            /\ Finish(s)
            /\ UNCHANGED <<pendingSelfDestructCodes, accepted>>
       ELSE LET u == InstanceUpdate(r.row[1], SelfDestructValues, clock) IN
            IF ~u.write
            THEN ConfirmDone(s)
            ELSE /\ Suspend(s, [r EXCEPT !.pc = "save", !.inst = u.inst,
                                         !.fields = u.fields, !.row = <<>>])
                 /\ UNCHANGED <<pendingSelfDestructCodes, response, accepted>>
    /\ UNCHANGED <<gadgets, clock, budget>>

\* The handler resumes after the UPDATE, or the catch answers 400
ConfirmAnswer(s) ==
    /\ At(s, "confirm", "saved")
    /\ IF reqs[s].ok
       THEN ConfirmDone(s)
       ELSE /\ response' = Respond("confirm", reqs[s].id, 400)
            /\ Finish(s)
            /\ UNCHANGED <<pendingSelfDestructCodes, accepted>>
    /\ UNCHANGED <<gadgets, clock, budget>>

----------------------------------------------------------------------------
(* The requests *)

\* A date a client puts in a body, earlier than any the clock shows
ClientDate == Date(-1)

\* The bodies a PATCH request may carry: any of the three attributes
NameOptions == Names \cup {JsNull}
StatusOptions == Statuses \cup {"Bogus", JsNull}
DateOptions == {NoDate, ClientDate}
UpdateBodies ==
    {EmptyObject}
    \cup {[name |-> n] : n \in NameOptions}
    \cup {[status |-> st] : st \in StatusOptions}
    \cup {[decommissionedAt |-> d] : d \in DateOptions}
    \cup {[status |-> "Decommissioned", decommissionedAt |-> ClientDate]}

Next ==
    \/ Tick
    \/ \E hdr \in Headers : AuthReject(hdr)
    \/ \E s \in Slots, hdr \in Headers : List(s, hdr)
    \/ \E s \in Slots, status \in QueryStatuses : ExecFindAll(s, status)
    \/ \E s \in Slots : ListAnswer(s)
    \/ \E s \in Slots, hdr \in Headers, i \in NounIndices : Create(s, hdr, i)
    \/ \E s \in Slots : ExecFindOne(s)
    \/ \E s \in Slots, i \in NounIndices : CreateRetry(s, i)
    \/ \E s \in Slots : CreateIssue(s)
    \/ \E s \in Slots : ExecInsert(s)
    \/ \E s \in Slots : CreateAnswer(s)
    \/ \E s \in Slots, hdr \in Headers, id \in PlainIds : Update(s, hdr, id)
    \/ \E s \in Slots, body \in UpdateBodies : UpdateResume(s, body)
    \/ \E s \in Slots : UpdateAnswer(s)
    \/ \E s \in Slots, hdr \in Headers, id \in PlainIds : Decommission(s, hdr, id)
    \/ \E s \in Slots : DecommissionResume(s)
    \/ \E s \in Slots : DecommissionAnswer(s)
    \/ \E s \in Slots, hdr \in Headers, id \in RequestIds : GenerateSelfDestructCode(s, hdr, id)
    \/ \E s \in Slots, n \in CodeNumbers : GenerateResume(s, n)
    \/ \E s \in Slots, hdr \in Headers, id \in RequestIds, c \in SuppliedCodes :
          ConfirmSelfDestruct(s, hdr, id, c)
    \/ \E s \in Slots : ConfirmResume(s)
    \/ \E s \in Slots : ConfirmAnswer(s)
    \/ \E s \in Slots : ExecFindByPk(s)
    \/ \E s \in Slots : ExecSave(s)

Spec == Init /\ [][Next]_vars

----------------------------------------------------------------------------
(* The clients call only the two self-destruct routes, MaxSelfDestructs     *)
(* times                                                                    *)

SelfDestructInit == Start(MaxSelfDestructs)

SelfDestructNext ==
    \/ Tick
    \/ \E s \in Slots, hdr \in Headers, id \in RequestIds : GenerateSelfDestructCode(s, hdr, id)
    \/ \E s \in Slots, n \in CodeNumbers : GenerateResume(s, n)
    \/ \E s \in Slots, hdr \in Headers, id \in RequestIds, c \in SuppliedCodes :
          ConfirmSelfDestruct(s, hdr, id, c)
    \/ \E s \in Slots : ConfirmResume(s)
    \/ \E s \in Slots : ConfirmAnswer(s)
    \/ \E s \in Slots : ExecFindByPk(s)
    \/ \E s \in Slots : ExecSave(s)

SelfDestructSpec == SelfDestructInit /\ [][SelfDestructNext]_vars

----------------------------------------------------------------------------
(* Properties *)

ValidHeaders == {hdr \in Headers : Authorized(hdr)}

\* The answer of a generate-code call that stored the code of number n
GeneratedOk(id, n) == RespondCode("generate", id, 200, JsString(n))

\* The step is the arrival of a request
Arrival == budget' = budget - 1

\* The step is the last one of the request in slot s, a request of route op
\* during which no other request arrived or was in flight
RanAlone(s, op) == reqs[s].op = op /\ reqs[s].alone /\ reqs'[s].op = "idle"

\* The step is the database executing the UPDATE of the request in slot s
Saves(s) == reqs[s].pc = "save" /\ reqs'[s].pc = "saved"

(* C1: generate-code followed immediately by self-destruct with the        *)
(* returned code passes the two checks, answers 200 with the gadget         *)
(* Destroyed and the code deleted; a second self-destruct with the same     *)
(* code then answers 400.                                                   *)
C1_GenerateThenConfirm ==
    [][/\ \A id \in RequestIds, n \in CodeNumbers :
            (Arrival /\ Quiet /\ response = GeneratedOk(id, n)) =>
                \A s \in Slots, hdr \in ValidHeaders :
                    ConfirmSelfDestruct(s, hdr, id, JsString(n)) =>
                        reqs'[s].op = "confirm" /\ reqs'[s].alone
       /\ \A s \in Slots :
            RanAlone(s, "confirm") =>
                /\ response' = Respond("confirm", reqs[s].id, 200)
                /\ gadgets'[Uuid(reqs[s].id)].status = "Destroyed"
                /\ reqs[s].id \notin DOMAIN pendingSelfDestructCodes'
       /\ \A id \in RequestIds :
            (Arrival /\ response = Respond("confirm", id, 200)) =>
                \A s \in Slots, hdr \in ValidHeaders, n \in CodeNumbers :
                    ConfirmSelfDestruct(s, hdr, id, JsString(n)) =>
                        /\ response' = Respond("confirm", id, 400)
                        /\ UNCHANGED <<gadgets, pendingSelfDestructCodes>>
      ]_vars

\* The second self-destruct has answered 400 after the first destroyed the
\* gadget with the code generated for it
C1_Witness ==
    \E id \in RequestIds :
        /\ Quiet
        /\ response = Respond("confirm", id, 400)
        /\ accepted[id] = 1
        /\ Uuid(id) \in DOMAIN gadgets
        /\ gadgets[Uuid(id)].status = "Destroyed"
        /\ id \notin DOMAIN pendingSelfDestructCodes

(* C2: a gadget has one pending code, the one the latest generate-code     *)
(* call for it stored, and self-destruct with any other code answers 403   *)
(* and changes neither the table nor the pending codes.                    *)
C2_OnlyLatestCodePending ==
    [][/\ \A k1, k2 \in DOMAIN pendingSelfDestructCodes' :
            Uuid(k1) = Uuid(k2) => k1 = k2
       /\ \A id \in DOMAIN pendingSelfDestructCodes :
            (Arrival /\ response'.op = "confirm" /\ response'.id = id) =>
                \A s \in Slots, hdr \in ValidHeaders, c \in SuppliedCodes :
                    (~StrictEquals(c, pendingSelfDestructCodes[id])
                        /\ ConfirmSelfDestruct(s, hdr, id, c)) =>
                            /\ response' = Respond("confirm", id, 403)
                            /\ UNCHANGED <<gadgets, pendingSelfDestructCodes>>
      ]_vars

\* The answer of a DELETE that decommissioned
DecommissionedOk(id) == Respond("decommission", id, 200)

\* The row of the request in slot s, before and after the step
RowOf(s) == gadgets[Uuid(reqs[s].id)]
RowAfter(s) == gadgets'[Uuid(reqs[s].id)]

(* C3 as stated: the second of two successive DELETE calls keeps the       *)
(* timestamp the first one set.                                            *)
C3_SecondCallKeepsTimestamp ==
    [][\A s \in Slots :
          (Saves(s) /\ reqs[s].op = "decommission" /\ reqs[s].alone
              /\ response = DecommissionedOk(reqs[s].id))
          => RowAfter(s).decommissionedAt = RowOf(s).decommissionedAt
      ]_vars

(* C3 amended: each of successive DELETE calls for an existing gadget, the *)
(* first and every later one, answers 200 and leaves the gadget            *)
(* Decommissioned with decommissionedAt the new Date() of that call.       *)
C3_EachCallStampsNow ==
    [][\A s \in Slots :
          /\ (At(s, "decommission", "loaded") /\ reqs'[s].pc = "save") =>
                /\ reqs'[s].inst.status = "Decommissioned"
                /\ reqs'[s].inst.decommissionedAt = Date(clock)
          /\ (RanAlone(s, "decommission")
                /\ (reqs[s].pc = "saved" \/ reqs[s].row # <<>>)) =>
                /\ response' = DecommissionedOk(reqs[s].id)
                /\ RowAfter(s).status = "Decommissioned"
                /\ RowAfter(s).decommissionedAt =
                      IF reqs[s].pc = "saved" THEN reqs[s].inst.decommissionedAt
                      ELSE Date(clock)
      ]_vars

\* The second of two successive DELETE calls is about to replace the
\* timestamp of the first
C3_Witness ==
    \E s \in Slots :
        /\ At(s, "decommission", "save")
        /\ reqs[s].alone
        /\ response = DecommissionedOk(reqs[s].id)
        /\ RowOf(s).status = "Decommissioned"
        /\ RowOf(s).decommissionedAt # reqs[s].inst.decommissionedAt

(* C4: a PATCH call that answers 200 leaves decommissionedAt set when the  *)
(* status it leaves is Decommissioned, and null when it is another one.    *)
C4_UpdateKeepsTimestampInStep ==
    [][\A s \in Slots :
          (RanAlone(s, "update") /\ response'.http = 200) =>
              (RowAfter(s).status = "Decommissioned"
                  <=> RowAfter(s).decommissionedAt # NoDate)
      ]_vars

\* The one PATCH call so far has decommissioned a gadget
C4_Witness ==
    \E id \in PlainIds :
        /\ Quiet
        /\ budget = MaxRequests - 1
        /\ response = Respond("update", id, 200)
        /\ gadgets[Uuid(id)].status = "Decommissioned"
        /\ gadgets[Uuid(id)].decommissionedAt # NoDate

(* C5: no two stored gadgets have the same name, and the gadget a POST     *)
(* returns holds a name no other gadget holds.                             *)
C5_NamesUnique ==
    \A a \in DOMAIN gadgets, b \in DOMAIN gadgets :
        a # b => gadgets[a].name # gadgets[b].name

\* A POST has answered 201 with a second gadget
C5_Witness ==
    /\ Cardinality(DOMAIN gadgets) = 2
    /\ response = Respond("create", Canonical(2), 201)
    /\ gadgets[1].name = OtherName
    /\ gadgets[2].name = GenerateCodename(1)
    /\ budget = MaxRequests - 1

\* A header that carries a valid token, bare or after "Bearer "
CarriesValidToken(hdr) == hdr = <<"jwt">> \/ hdr = <<"Bearer", "jwt">>

\* The middleware calls next() for exactly the headers carrying a valid token
GatePassesValidTokens ==
    \A hdr \in Headers : Authorized(hdr) <=> CarriesValidToken(hdr)

(* C6: the middleware passes a request on exactly when its header carries  *)
(* a valid token, bare or in Bearer form; every other request, whatever    *)
(* route it was for, is answered 401 by the middleware in a step that      *)
(* starts no handler and changes neither the table nor the pending codes.  *)
C6_AuthGate ==
    [][/\ GatePassesValidTokens
       /\ response'.op = "auth" =>
             \A hdr \in Headers :
                AuthReject(hdr)
                   => /\ ~CarriesValidToken(hdr)
                      /\ response' = Respond("auth", NoId, 401)
                      /\ \A s \in Slots : reqs'[s].op = reqs[s].op
                      /\ UNCHANGED <<gadgets, pendingSelfDestructCodes>>
      ]_vars

\* The middleware has answered 401 while a code is pending
C6_Witness ==
    /\ response = Respond("auth", NoId, 401)
    /\ DOMAIN pendingSelfDestructCodes # {}

\* The row of uuid u becomes Destroyed in the step
BecomesDestroyed(u) ==
    /\ u \in DOMAIN gadgets
    /\ gadgets[u].status # "Destroyed"
    /\ gadgets'[u].status = "Destroyed"

\* The handler of a self-destruct suspends only when the supplied code is
\* the one pending for the :id as sent
PassesWithPendingCode(s) ==
    (reqs[s].op = "idle" /\ reqs'[s].op = "confirm") =>
        /\ reqs'[s].id \in DOMAIN pendingSelfDestructCodes
        /\ \A hdr \in ValidHeaders, c \in SuppliedCodes :
              ConfirmSelfDestruct(s, hdr, reqs'[s].id, c)
                  => StrictEquals(c, pendingSelfDestructCodes[reqs'[s].id])

(* C7 as stated: a gadget becomes Destroyed only by the UPDATE of a        *)
(* self-destruct whose code matched the pending one.                       *)
C7_DestroyedOnlyByConfirm ==
    [][/\ \A s \in Slots : PassesWithPendingCode(s)
       /\ \A u \in GadgetIds :
            BecomesDestroyed(u) =>
                \E s \in Slots :
                    Saves(s) /\ Uuid(reqs[s].id) = u /\ reqs[s].op = "confirm"
      ]_vars

(* C7 amended: a gadget becomes Destroyed only by the UPDATE of a          *)
(* self-destruct whose code matched the one pending for its :id as sent,   *)
(* or by the UPDATE of a PATCH whose body carries status Destroyed; no     *)
(* DELETE, POST /gadgets, GET or generate-code step makes it Destroyed.    *)
C7_DestroyedByConfirmOrUpdate ==
    [][/\ \A s \in Slots : PassesWithPendingCode(s)
       /\ \A u \in GadgetIds :
            BecomesDestroyed(u) =>
                \E s \in Slots :
                    /\ Saves(s)
                    /\ Uuid(reqs[s].id) = u
                    /\ \/ reqs[s].op = "confirm"
                       \/ /\ reqs[s].op = "update"
                          /\ "status" \in reqs[s].fields
                          /\ reqs[s].inst.status = "Destroyed"
      ]_vars

\* A self-destruct has destroyed a gadget and answered 200
C7_Witness ==
    \E id \in RequestIds :
        /\ response = Respond("confirm", id, 200)
        /\ accepted[id] = 1
        /\ gadgets[Uuid(id)].status = "Destroyed"

\* The row of uuid u leaves Destroyed in the step
LeavesDestroyed(u) ==
    /\ u \in DOMAIN gadgets
    /\ gadgets[u].status = "Destroyed"
    /\ gadgets'[u].status # "Destroyed"

(* C8 as stated: no step takes a gadget out of Destroyed.                  *)
C8_DestroyedIsTerminal ==
    [][\A u \in GadgetIds : ~LeavesDestroyed(u)]_vars

(* C8 amended: a gadget leaves Destroyed only by the UPDATE of a PATCH     *)
(* whose body carries a status or of a DELETE, both addressed to it; a     *)
(* PATCH without a status, a generate-code, a self-destruct, a POST        *)
(* /gadgets and a GET leave a Destroyed gadget Destroyed.                  *)
C8_DestroyedLeftOnlyByUpdateOrDecommission ==
    [][\A u \in GadgetIds :
          LeavesDestroyed(u) =>
              \E s \in Slots :
                  /\ Saves(s)
                  /\ Uuid(reqs[s].id) = u
                  /\ reqs[s].op \in {"update", "decommission"}
                  /\ "status" \in reqs[s].fields
      ]_vars

\* The UPDATE of a PATCH carrying another status is about to run on a
\* Destroyed gadget
C8_Witness ==
    \E s \in Slots :
        /\ At(s, "update", "save")
        /\ RowOf(s).status = "Destroyed"
        /\ "status" \in reqs[s].fields
        /\ reqs[s].inst.status = "Available"

(* C9: the code one generate-code call stored is accepted by at most one   *)
(* self-destruct that answers 200.                                         *)
C9_CodeSingleUse == \A id \in RequestIds : accepted[id] <= 1

(* C10: a gadget's decommissionedAt is set exactly when its status is      *)
(* Decommissioned.                                                         *)
C10_TimestampIffDecommissioned ==
    \A u \in DOMAIN gadgets :
        gadgets[u].status = "Decommissioned" <=> gadgets[u].decommissionedAt # NoDate

Codenames == {GenerateCodename(i) : i \in NounIndices}

(* C11: a POST /gadgets in its loop can draw a codename no gadget holds,   *)
(* and every POST /gadgets answers 201 with a stored gadget.               *)
C11_CreateReturnsGadget ==
    /\ \A s \in Slots :
          (reqs[s].op = "create" /\ reqs[s].pc \in {"findOne", "found"}) =>
              \E name \in Codenames : ~FindOneByName(gadgets, name)
    /\ response.op = "create" =>
          /\ response.http = 201
          /\ Uuid(response.id) \in DOMAIN gadgets

\* The row of uuid b and the codes pending for it are the same after the step
Untouched(b) ==
    /\ (b \in DOMAIN gadgets) => gadgets'[b] = gadgets[b]
    /\ \A k \in RequestIds :
          Uuid(k) = b =>
              /\ (k \in DOMAIN pendingSelfDestructCodes)
                    <=> (k \in DOMAIN pendingSelfDestructCodes')
              /\ (k \in DOMAIN pendingSelfDestructCodes) =>
                    pendingSelfDestructCodes'[k] = pendingSelfDestructCodes[k]

\* The step is one of the request in slot s, addressed to a gadget
StepOf(s) ==
    /\ reqs[s].op \in {"update", "decommission", "generate", "confirm"}
    /\ reqs'[s].pc # reqs[s].pc

(* C12: a step of a PATCH, DELETE, generate-code or self-destruct request  *)
(* for the gadget A, whatever other requests are in flight, leaves the row *)
(* of every other gadget B and the codes pending for B as they were.       *)
C12_OtherGadgetsUntouched ==
    [][\A s \in Slots :
          StepOf(s) => \A b \in GadgetIds \ {Uuid(reqs[s].id)} : Untouched(b)
      ]_vars

\* A PATCH for the first of two gadgets has changed it while another
\* request is in flight, and the second gadget is as it was stored
C12_Witness ==
    /\ DOMAIN gadgets = {1, 2}
    /\ ~Quiet
    /\ response = Respond("update", Canonical(1), 200)
    /\ gadgets[1].status = "Deployed"
    /\ gadgets[2] = NewGadget(GenerateCodename(1))

(* C13: every key of the pending codes is the :id of a stored gadget, a    *)
(* self-destruct never answers 404, and a self-destruct for an :id no      *)
(* gadget has answers 400.                                                 *)
C13_PendingKeysExist ==
    /\ \A k \in DOMAIN pendingSelfDestructCodes : Uuid(k) \in DOMAIN gadgets
    /\ response.op = "confirm" =>
          /\ response.http # 404
          /\ Uuid(response.id) \notin DOMAIN gadgets => response.http = 400

====
